---------------------------- MODULE Spec2Model ----------------------------
(***************************************************************************)
(* ArithmeticExtensionGate<D> (plonky2/src/gates/arithmetic_extension.rs)  *)
(* and its witness generator: wire addressing, construction, evaluation    *)
(* in the three domains, generator scheduling, serialization and the       *)
(* verifier-template export.                                               *)
(***************************************************************************)
EXTENDS Integers, Sequences, FiniteSets, TLC

VARIABLES
    D,          \* the const generic D of ArithmeticExtensionGate<D>
    config,     \* CircuitConfig: [num_routed_wires |-> n]
    gate,       \* the constructed gate [num_ops |-> n], or NoGate
    ctor,       \* which construction path produced the gate
    accessed,   \* wire columns touched by the last routine called on the gate
    generator,  \* an ArithmeticExtensionGenerator, or NoGen
    buf,        \* dst: the bytes serialize wrote
    decoded,    \* what deserialize returned from buf
    exported,   \* the text the last export_*_verification_code call returned
    vars_row,   \* EvaluationVars of one row: [local_constants, local_wires]
    evals,      \* what the three evaluation routines returned on vars_row
    probe,      \* a constraint polynomial of eval_unfiltered and its total degree
    gate_row,          \* the row the gate is placed at
    row_constants,     \* that row's local_constants
    pending,           \* the resolver's pending generators
    partition_witness, \* the witness: assigned Target -> value
    status,            \* the resolver: "idle", "running" or how it ended
    initial_witness,   \* the witness the resolver started from
    write_count,       \* Target -> how many times a generator's value was committed to it
    run_count          \* generator -> how many times it ran

gvars == <<D, config, gate, ctor, accessed>>
cvars == <<generator, buf, decoded>>
xvars == <<exported>>
evars == <<vars_row, evals, probe>>
rvars == <<gate_row, row_constants, pending, partition_witness, status,
           initial_witness, write_count, run_count>>
vars == <<gvars, cvars, xvars, evars, rvars>>

\* ------------------------------------------------------------------ bounds
MaxD == 3
MaxRoutedWires == 16
MaxNumOps == 4

NoGate == [none |-> TRUE]
NoGen == [none |-> TRUE]
NotYet == [none |-> TRUE]

\* The variables of the other components, as they stand while one is exercised.
IdleGate == ctor = "none" /\ accessed = [routine |-> "none", columns |-> {}]
IdleCodec == generator = NoGen /\ buf = <<>> /\ decoded = NotYet
IdleExport == exported = NotYet
IdleEval == vars_row = NotYet /\ evals = NotYet /\ probe = NotYet
IdleResolver ==
    /\ gate_row = 0
    /\ row_constants = <<>>
    /\ pending = {}
    /\ partition_witness = <<>>
    /\ status = "idle"
    /\ initial_witness = <<>>
    /\ write_count = <<>>
    /\ run_count = <<>>

Max(S) == CHOOSE x \in S : \A y \in S : y <= x

\* ---------------------------------------------------------- Range<usize>
\* A Range<usize> start..end is the pair <<start, end>>; it holds the
\* unsigned indices k with start <= k < end.
RangeSet(r) == {k \in r[1]..(r[2] - 1) : k \in Nat}
RangeLen(r) == IF r[2] >= r[1] THEN r[2] - r[1] ELSE 0

\* ------------------------------------------------------- wire addressing
wires_ith_multiplicand_0(d, i) == <<4 * d * i, 4 * d * i + d>>

wires_ith_multiplicand_1(d, i) == <<4 * d * i + d, 4 * d * i + 2 * d>>

\* Mutant: the addend slot strides by three slots per operation, not four.
wires_ith_addend_stride3(d, i) == <<3 * d * i + 2 * d, 3 * d * i + 3 * d>>

wires_ith_addend(d, i) == <<4 * d * i + 2 * d, 4 * d * i + 3 * d>>

\* Mutant: every operation's output in the first operation's output range.
wires_ith_output_shared(d, i) == <<3 * d, 4 * d>>

wires_ith_output(d, i) == <<4 * d * i + 3 * d, 4 * d * i + 4 * d>>

\* ---------------------------------------------------------- construction
num_ops(d, cfg) ==
    LET wires_per_op == 4 * d
    IN  cfg.num_routed_wires \div wires_per_op

new_from_config(d, cfg) == [num_ops |-> num_ops(d, cfg)]

\* #[derive(Default)]: usize::default() = 0
default_gate == [num_ops |-> 0]

\* Self { num_ops } written by any caller: the field is pub.
struct_literal(n) == [num_ops |-> n]

\* Mutant: the output slot is not counted.
num_wires_three_slots(g, d) == g.num_ops * 3 * d

num_wires(g, d) == g.num_ops * 4 * d

num_constants(g) == 2

\* Mutant: the constant factor is not counted.
degree_wires_only(g) == 2

degree(g) == 3

num_constraints(g, d) == g.num_ops * d

Ops(g) == 0..(g.num_ops - 1)

\* ----------------------------------------------------- serialization codec
\* util::serialization (Buffer, Read, Write): fixed-width little-endian
\* integers. A u64 is UsizeBytes digits of base ByteBase.
ByteBase == 4
UsizeBytes == 2

Byte == 0..(ByteBase - 1)
U64Max == ByteBase ^ UsizeBytes - 1
Err == [ok |-> FALSE]

to_le_bytes(n) == [k \in 1..UsizeBytes |-> (n \div (ByteBase ^ (k - 1))) % ByteBase]

RECURSIVE from_le_bytes(_)
from_le_bytes(b) ==
    IF b = <<>> THEN 0 ELSE Head(b) + ByteBase * from_le_bytes(Tail(b))

write_usize(dst, x) == dst \o to_le_bytes(x)

\* Reads exactly UsizeBytes bytes off the front of the buffer, or fails.
read_usize(src) ==
    IF Len(src) < UsizeBytes THEN Err
    ELSE [ok |-> TRUE,
          val |-> from_le_bytes(SubSeq(src, 1, UsizeBytes)),
          rest |-> SubSeq(src, UsizeBytes + 1, Len(src))]

\* What a loader may hand to deserialize: an encoding, or one cut short.
Truncations(bytes) == {SubSeq(bytes, 1, n) : n \in 0..Len(bytes)}

\* ------------------------------------------------- gate (de)serialization
gate_serialize(g, dst, common_data) == write_usize(dst, g.num_ops)

gate_deserialize(src, common_data) ==
    LET r == read_usize(src)
    IN  IF r.ok THEN [ok |-> TRUE, val |-> [num_ops |-> r.val], rest |-> r.rest]
        ELSE Err

\* ------------------------------------------------ wire columns each routine touches
\* The loop `for i in 0..self.num_ops` and the four ranges it reads.
eval_unfiltered_accesses(g, d) ==
    UNION {RangeSet(wires_ith_multiplicand_0(d, i))
           \cup RangeSet(wires_ith_multiplicand_1(d, i))
           \cup RangeSet(wires_ith_addend(d, i))
           \cup RangeSet(wires_ith_output(d, i)) : i \in Ops(g)}

eval_unfiltered_base_one_accesses(g, d) ==
    UNION {RangeSet(wires_ith_multiplicand_0(d, i))
           \cup RangeSet(wires_ith_multiplicand_1(d, i))
           \cup RangeSet(wires_ith_addend(d, i))
           \cup RangeSet(wires_ith_output(d, i)) : i \in Ops(g)}

eval_unfiltered_circuit_accesses(g, d) ==
    UNION {RangeSet(wires_ith_multiplicand_0(d, i))
           \cup RangeSet(wires_ith_multiplicand_1(d, i))
           \cup RangeSet(wires_ith_addend(d, i))
           \cup RangeSet(wires_ith_output(d, i)) : i \in Ops(g)}

\* ------------------------------------------------------------- generators
\* One ArithmeticExtensionGenerator per operation index.
generators(g, row, local_constants) ==
    {[row |-> row, const_0 |-> local_constants[0],
      const_1 |-> local_constants[1], i |-> i] : i \in Ops(g)}

\* Mutant: the addend wires are not declared.
dependencies_without_addend(gen, d) ==
    {<<gen.row, c>> : c \in RangeSet(wires_ith_multiplicand_0(d, gen.i))
                          \cup RangeSet(wires_ith_multiplicand_1(d, gen.i))}

\* Target::wire(row, column) is the pair <<row, column>>.
dependencies(gen, d) ==
    {<<gen.row, c>> : c \in RangeSet(wires_ith_multiplicand_0(d, gen.i))
                          \cup RangeSet(wires_ith_multiplicand_1(d, gen.i))
                          \cup RangeSet(wires_ith_addend(d, gen.i))}

\* The targets run_once reads through extract_extension.
run_once_reads(gen, d) ==
    {<<gen.row, c>> : c \in RangeSet(wires_ith_multiplicand_0(d, gen.i))
                          \cup RangeSet(wires_ith_multiplicand_1(d, gen.i))
                          \cup RangeSet(wires_ith_addend(d, gen.i))}

\* The targets run_once writes: output_target.
run_once_writes(gen, d) ==
    {<<gen.row, c>> : c \in RangeSet(wires_ith_output(d, gen.i))}

Columns(targets) == {t[2] : t \in targets}

\* =========================================================================
\* SpecGate: construction of a gate by each path, then calls of its routines
\* =========================================================================
Routines == {"eval_unfiltered", "eval_unfiltered_base_one", "eval_unfiltered_circuit"}

InitGate ==
    /\ D \in 1..MaxD
    /\ config \in [num_routed_wires : 0..MaxRoutedWires]
    /\ gate = NoGate
    /\ IdleGate
    /\ IdleCodec
    /\ IdleExport
    /\ IdleEval
    /\ IdleResolver

NewFromConfig ==
    /\ gate = NoGate
    /\ gate' = new_from_config(D, config)
    /\ ctor' = "new_from_config"
    /\ UNCHANGED <<D, config, accessed, cvars, xvars, evars, rvars>>

DefaultGate ==
    /\ gate = NoGate
    /\ gate' = default_gate
    /\ ctor' = "default"
    /\ UNCHANGED <<D, config, accessed, cvars, xvars, evars, rvars>>

StructLiteral ==
    /\ gate = NoGate
    /\ \E n \in 0..MaxNumOps : gate' = struct_literal(n)
    /\ ctor' = "struct_literal"
    /\ UNCHANGED <<D, config, accessed, cvars, xvars, evars, rvars>>

\* Gate::deserialize on the bytes of a persisted gate, whole or cut short; a
\* short buffer is a decode failure and constructs nothing.
DeserializeGate ==
    /\ gate = NoGate
    /\ \E n \in 0..MaxNumOps :
       \E src \in Truncations(gate_serialize(struct_literal(n), <<>>, config)) :
         LET r == gate_deserialize(src, config)
         IN  IF r.ok
             THEN gate' = r.val /\ ctor' = "deserialize"
             ELSE gate' = NoGate /\ ctor' = "deserialize_failed"
    /\ UNCHANGED <<D, config, accessed, cvars, xvars, evars, rvars>>

CallEval ==
    /\ gate # NoGate
    /\ \E r \in Routines :
         accessed' = [routine |-> r,
                      columns |-> CASE r = "eval_unfiltered" -> eval_unfiltered_accesses(gate, D)
                                    [] r = "eval_unfiltered_base_one" -> eval_unfiltered_base_one_accesses(gate, D)
                                    [] OTHER -> eval_unfiltered_circuit_accesses(gate, D)]
    /\ UNCHANGED <<D, config, gate, ctor, cvars, xvars, evars, rvars>>

CallGenerator ==
    /\ gate # NoGate
    /\ \E gen \in generators(gate, 0, [k \in 0..1 |-> 0]) :
         accessed' = [routine |-> "generator",
                      columns |-> Columns(dependencies(gen, D))
                                  \cup Columns(run_once_reads(gen, D))
                                  \cup Columns(run_once_writes(gen, D))]
    /\ UNCHANGED <<D, config, gate, ctor, cvars, xvars, evars, rvars>>

NextGate ==
    \/ NewFromConfig
    \/ DefaultGate
    \/ StructLiteral
    \/ DeserializeGate
    \/ CallEval
    \/ CallGenerator

SpecGate == InitGate /\ [][NextGate]_vars

\* ------------------------------------------------------------ SpecGate claims
Role(k, d, i) ==
    CASE k = 0 -> wires_ith_multiplicand_0(d, i)
      [] k = 1 -> wires_ith_multiplicand_1(d, i)
      [] k = 2 -> wires_ith_addend(d, i)
      [] OTHER -> wires_ith_output(d, i)

\* C3: for every operation i < num_ops and role k in 0..3 the range is
\* 4*D*i + k*D .. 4*D*i + (k+1)*D and holds exactly D columns; the ranges of
\* two distinct (i, role) pairs share no column; num_wires() = num_ops*4*D.
C3_WireAddressing ==
    gate # NoGate =>
      /\ \A i \in Ops(gate) : \A k \in 0..3 :
           /\ Role(k, D, i) = <<4 * D * i + k * D, 4 * D * i + (k + 1) * D>>
           /\ Cardinality(RangeSet(Role(k, D, i))) = D
      /\ \A i \in Ops(gate) : \A j \in Ops(gate) : \A k \in 0..3 : \A l \in 0..3 :
           <<i, k>> # <<j, l>> =>
             RangeSet(Role(k, D, i)) \cap RangeSet(Role(l, D, j)) = {}
      /\ num_wires(gate, D) = gate.num_ops * 4 * D

C3_Witness ==
    /\ gate # NoGate
    /\ ctor = "new_from_config"
    /\ gate.num_ops >= 2
    /\ D >= 2

LastOutputColumns(g, d) == RangeSet(wires_ith_output(d, g.num_ops - 1))

\* C4 as stated: for every gate instance, num_ops = 0 included, the highest
\* column of wires_ith_output(num_ops - 1) plus one is num_wires(), and no
\* routine touches a column >= num_wires().
C4_CapacityBoundAllInstances ==
    gate # NoGate =>
      /\ LastOutputColumns(gate, D) # {}
      /\ num_wires(gate, D) = Max(LastOutputColumns(gate, D)) + 1
      /\ \A c \in accessed.columns : c < num_wires(gate, D)

\* C4 amended: for num_ops >= 1 the highest column of
\* wires_ith_output(num_ops - 1) plus one is num_wires(); for num_ops = 0 there
\* is no such operation, no column is referenced and num_wires() = 0; in both
\* cases no routine touches a column >= num_wires().
C4_CapacityBound ==
    gate # NoGate =>
      /\ gate.num_ops >= 1 =>
           /\ LastOutputColumns(gate, D) # {}
           /\ num_wires(gate, D) = Max(LastOutputColumns(gate, D)) + 1
      /\ gate.num_ops = 0 =>
           /\ LastOutputColumns(gate, D) = {}
           /\ num_wires(gate, D) = 0
           /\ accessed.columns = {}
      /\ \A c \in accessed.columns : c < num_wires(gate, D)

C4_Witness ==
    /\ gate # NoGate
    /\ gate.num_ops >= 2
    /\ accessed.routine = "generator"
    /\ Max(accessed.columns) + 1 = num_wires(gate, D)

\* C7: no constructed gate has num_wires() above config.num_routed_wires,
\* whichever path constructed it.
C7_CapacityViolationRejected ==
    gate # NoGate => num_wires(gate, D) <= config.num_routed_wires

\* ------------------------------------------------------------- base field
\* field::goldilocks_field::GoldilocksField: a prime field, here of order P,
\* whose degree-D extension is F[X]/(X^D - W).
P == 3
W == 2

F == 0..(P - 1)
FAdd(a, b) == (a + b) % P
FSub(a, b) == (a - b + P) % P
FMul(a, b) == (a * b) % P

\* Field::to_canonical_u64 and Field::from_canonical_u64.
to_canonical_u64(x) == x % P
from_canonical_u64(n) == n % P

write_field(dst, x) == dst \o to_le_bytes(to_canonical_u64(x))

read_field(src) ==
    IF Len(src) < UsizeBytes THEN Err
    ELSE [ok |-> TRUE,
          val |-> from_canonical_u64(from_le_bytes(SubSeq(src, 1, UsizeBytes))),
          rest |-> SubSeq(src, UsizeBytes + 1, Len(src))]

\* -------------------------------------------- generator (de)serialization
generator_serialize(g, dst, common_data) ==
    LET b1 == write_usize(dst, g.row)
        b2 == write_field(b1, g.const_0)
        b3 == write_field(b2, g.const_1)
    IN  write_usize(b3, g.i)

\* Mutant: the two usize fields are read in the opposite order.
generator_deserialize_i_first(src, common_data) ==
    LET i == read_usize(src)
        const_0 == IF i.ok THEN read_field(i.rest) ELSE Err
        const_1 == IF const_0.ok THEN read_field(const_0.rest) ELSE Err
        row == IF const_1.ok THEN read_usize(const_1.rest) ELSE Err
    IN  IF row.ok
        THEN [ok |-> TRUE,
              val |-> [row |-> row.val, const_0 |-> const_0.val,
                       const_1 |-> const_1.val, i |-> i.val],
              rest |-> row.rest]
        ELSE Err

\* Each `?` returns the first failure.
generator_deserialize(src, common_data) ==
    LET row == read_usize(src)
        const_0 == IF row.ok THEN read_field(row.rest) ELSE Err
        const_1 == IF const_0.ok THEN read_field(const_0.rest) ELSE Err
        i == IF const_1.ok THEN read_usize(const_1.rest) ELSE Err
    IN  IF i.ok
        THEN [ok |-> TRUE,
              val |-> [row |-> row.val, const_0 |-> const_0.val,
                       const_1 |-> const_1.val, i |-> i.val],
              rest |-> i.rest]
        ELSE Err

\* =========================================================================
\* SpecCodec: a gate or a generator is serialized, then deserialized
\* =========================================================================
MaxRow == 2

Generators == [row : 0..MaxRow, const_0 : F, const_1 : F, i : 0..MaxNumOps]

InitCodec ==
    /\ D \in 1..MaxD
    /\ config \in [num_routed_wires : {0, MaxRoutedWires}]
    /\ \/ gate \in {struct_literal(n) : n \in 0..U64Max} /\ generator = NoGen
       \/ gate = NoGate /\ generator \in Generators
    /\ buf = <<>>
    /\ decoded = NotYet
    /\ IdleGate
    /\ IdleExport
    /\ IdleEval
    /\ IdleResolver

SerializeGate ==
    /\ gate # NoGate
    /\ buf = <<>>
    /\ buf' = gate_serialize(gate, <<>>, config)
    /\ UNCHANGED <<gvars, generator, decoded, xvars, evars, rvars>>

DeserializeGateBytes ==
    /\ gate # NoGate
    /\ buf # <<>>
    /\ decoded = NotYet
    /\ decoded' = gate_deserialize(buf, config)
    /\ UNCHANGED <<gvars, generator, buf, xvars, evars, rvars>>

SerializeGenerator ==
    /\ generator # NoGen
    /\ buf = <<>>
    /\ buf' = generator_serialize(generator, <<>>, config)
    /\ UNCHANGED <<gvars, generator, decoded, xvars, evars, rvars>>

DeserializeGenerator ==
    /\ generator # NoGen
    /\ buf # <<>>
    /\ decoded = NotYet
    /\ decoded' = generator_deserialize(buf, config)
    /\ UNCHANGED <<gvars, generator, buf, xvars, evars, rvars>>

NextCodec ==
    \/ SerializeGate
    \/ DeserializeGateBytes
    \/ SerializeGenerator
    \/ DeserializeGenerator

SpecCodec == InitCodec /\ [][NextCodec]_vars

\* C5: deserialize(serialize(g), common_data) succeeds with the same num_ops,
\* and deserialize(serialize(gen), common_data) succeeds with the same row,
\* const_0, const_1 and i; either way no byte of the buffer is left over.
C5_RoundTrip ==
    decoded # NotYet =>
      /\ decoded.ok
      /\ decoded.rest = <<>>
      /\ gate # NoGate => decoded.val.num_ops = gate.num_ops
      /\ generator # NoGen =>
           /\ decoded.val.row = generator.row
           /\ decoded.val.const_0 = generator.const_0
           /\ decoded.val.const_1 = generator.const_1
           /\ decoded.val.i = generator.i

C5_Witness ==
    /\ decoded # NotYet
    /\ generator # NoGen
    /\ generator.row # generator.i
    /\ generator.const_0 # generator.const_1
    /\ decoded.ok
    /\ decoded.val = generator

\* --------------------------------------------------------------- strings
Digit(n) ==
    CASE n = 0 -> "0" [] n = 1 -> "1" [] n = 2 -> "2" [] n = 3 -> "3"
      [] n = 4 -> "4" [] n = 5 -> "5" [] n = 6 -> "6" [] n = 7 -> "7"
      [] n = 8 -> "8" [] OTHER -> "9"

\* usize::to_string: the decimal digits.
RECURSIVE to_string(_)
to_string(n) == IF n < 10 THEN Digit(n) ELSE to_string(n \div 10) \o Digit(n % 10)

Matches(s, pat) ==
    {k \in 1..(Len(s) - Len(pat) + 1) : SubSeq(s, k, k + Len(pat) - 1) = pat}

contains(s, pat) == Matches(s, pat) # {}

\* str::replace: every non-overlapping match, leftmost first.
RECURSIVE replace(_, _, _)
replace(s, pat, to) ==
    IF Matches(s, pat) = {} THEN s
    ELSE LET k == CHOOSE m \in Matches(s, pat) : \A n \in Matches(s, pat) : m <= n
         IN  SubSeq(s, 1, k - 1) \o to
             \o replace(SubSeq(s, k + Len(pat), Len(s)), pat, to)

\* ---------------------------------------------------- verifier templates
circom_template ==
    "template ArithmeticExtension$NUM_OPS() {\n"
    \o "  signal input constants[NUM_OPENINGS_CONSTANTS()][2];\n"
    \o "  signal input wires[NUM_OPENINGS_WIRES()][2];\n"
    \o "  signal input public_input_hash[4];\n"
    \o "  signal input constraints[NUM_GATE_CONSTRAINTS()][2];\n"
    \o "  signal output out[NUM_GATE_CONSTRAINTS()][2];\n"
    \o "\n"
    \o "  signal filter[2];\n"
    \o "  $SET_FILTER;\n"
    \o "\n"
    \o "  signal m[$NUM_OPS][2][2];\n"
    \o "  for (var i = 0; i < $NUM_OPS; i++) {\n"
    \o "    m[i] <== WiresAlgebraMul(4 * $D * i, 4 * $D * i + $D)(wires);\n"
    \o "    for (var j = 0; j < $D; j++) {\n"
    \o "      out[i * $D + j] <== ConstraintPush()(constraints[i * $D + j], filter, GlExtSub()(wires[4 * $D * i + 3 * $D + j], GlExtAdd()(GlExtMul()(m[i][j], constants[$NUM_SELECTORS]), GlExtMul()(wires[4 * $D * i + 2 * $D + j], constants[$NUM_SELECTORS + 1]))));\n"
    \o "    }\n"
    \o "  }\n"
    \o "\n"
    \o "  for (var i = $NUM_OPS * $D; i < NUM_GATE_CONSTRAINTS(); i++) {\n"
    \o "    out[i] <== constraints[i];\n"
    \o "  }\n"
    \o "}"

solidity_template ==
    "library ArithmeticExtension$NUM_OPSLib {\n"
    \o "    using GoldilocksExtLib for uint64[2];\n"
    \o "    function set_filter(GatesUtilsLib.EvaluationVars memory ev) internal pure {\n"
    \o "        $SET_FILTER;\n"
    \o "    }\n"
    \o "    function eval(GatesUtilsLib.EvaluationVars memory ev, uint64[2][$NUM_GATE_CONSTRAINTS] memory constraints) internal pure {\n"
    \o "        for (uint32 i = 0; i < $NUM_OPS; i++) {\n"
    \o "            uint64[2][$D] memory m = GatesUtilsLib.wires_algebra_mul(ev.wires, 4 * $D * i, 4 * $D * i + $D);\n"
    \o "            for (uint32 j = 0; j < $D; j++) {\n"
    \o "                GatesUtilsLib.push(constraints, ev.filter, i * $D + j, ev.wires[4 * $D * i + 3 * $D + j].sub(m[j].mul(ev.constants[$NUM_SELECTORS]).add(ev.wires[4 * $D * i + 2 * $D + j].mul(ev.constants[$NUM_SELECTORS + 1]))));\n"
    \o "            }\n"
    \o "        }\n"
    \o "    }\n"
    \o "}"


export_circom_verification_code(g, d) ==
    LET template_str == circom_template
        t1 == replace(template_str, "$NUM_OPS", to_string(g.num_ops))
        t2 == replace(t1, "$D", to_string(d))
    IN  t2

export_solidity_verification_code(g, d) ==
    LET template_str == solidity_template
        t1 == replace(template_str, "$NUM_OPS", to_string(g.num_ops))
    IN  t1

\* =========================================================================
\* SpecExport: the two exports of a gate
\* =========================================================================
MaxExportOps == 12

InitExport ==
    /\ D \in 1..MaxD
    /\ config \in [num_routed_wires : {0, MaxRoutedWires}]
    /\ gate \in {new_from_config(D, config)} \cup {struct_literal(n) : n \in 0..MaxExportOps}
    /\ exported = NotYet
    /\ IdleGate
    /\ IdleCodec
    /\ IdleEval
    /\ IdleResolver

ExportCircom ==
    /\ exported' = [target |-> "circom", text |-> export_circom_verification_code(gate, D)]
    /\ UNCHANGED <<gvars, cvars, evars, rvars>>

ExportSolidity ==
    /\ exported' = [target |-> "solidity", text |-> export_solidity_verification_code(gate, D)]
    /\ UNCHANGED <<gvars, cvars, evars, rvars>>

NextExport ==
    \/ ExportCircom
    \/ ExportSolidity

SpecExport == InitExport /\ [][NextExport]_vars

\* C8: whichever export ran, its text holds no $NUM_OPS and no $D placeholder.
C8_PlaceholdersSubstituted ==
    exported # NotYet =>
      /\ ~contains(exported.text, "$NUM_OPS")
      /\ ~contains(exported.text, "$D")

\* ------------------------------------------------ F::Extension (degree d)
\* An element is the tuple of its d base-field coordinates; X^d = W.
\* The sequence with the entries of f, a function on 1..n.
AsTuple(f) == <<>> \o f

\* An operation takes its operands by value: it binds them once, as x and
\* y, and computes its result from those.
RECURSIVE FSumFrom(_, _)
FSumFrom(xs, n) == IF n > Len(xs) THEN 0 ELSE FAdd(xs[n], FSumFrom(xs, n + 1))

FSum(xs) == CHOOSE r \in {FSumFrom(x, 1) : x \in {xs}} : TRUE

from_basefield(c, d) == AsTuple([j \in 1..d |-> IF j = 1 THEN c ELSE 0])

ExtAdd(a, b) ==
    CHOOSE r \in {AsTuple([j \in 1..Len(x) |-> FAdd(x[j], y[j])]) : x \in {a}, y \in {b}} : TRUE

ExtSub(a, b) ==
    CHOOSE r \in {AsTuple([j \in 1..Len(x) |-> FSub(x[j], y[j])]) : x \in {a}, y \in {b}} : TRUE

\* FieldExtension::scalar_mul: by a base-field scalar.
ExtScalarMul(a, c) ==
    CHOOSE r \in {AsTuple([j \in 1..Len(x) |-> FMul(x[j], y)]) : x \in {a}, y \in {c}} : TRUE

\* (a * b)[k] = sum over i + j = k of a_i b_j, plus W times the sum over
\* i + j = k + d.
ExtMul(a, b) ==
    CHOOSE r \in
      {LET d == Len(x)
           term(k, i) ==
               LET j == (k - i + d) % d
               IN  FMul(FMul(x[i + 1], y[j + 1]), IF i + j < d THEN 1 ELSE W % P)
       IN  AsTuple([k \in 1..d |-> FSum(AsTuple([i \in 1..d |-> term(k - 1, i - 1)]))])
         : x \in {a}, y \in {b}} : TRUE

\* --------------------------------------------- polynomials over the field
\* A polynomial in the trace variables is the function from its monomials to
\* their non-zero coefficients; a monomial is the sorted tuple of its
\* variables (wire column c is variable c, local constant k is -(k + 1)).
PZero == [m \in {} |-> 0]
PConst(c) == IF c % P = 0 THEN PZero ELSE [m \in {<<>>} |-> c % P]
PVar(v) == [m \in {<<v>>} |-> 1]
PCoef(p, m) == IF m \in DOMAIN p THEN p[m] ELSE 0

PAdd(p, q) ==
    LET c(m) == FAdd(PCoef(p, m), PCoef(q, m))
    IN  [m \in {x \in DOMAIN p \cup DOMAIN q : c(x) # 0} |-> c(m)]

PSub(p, q) ==
    LET c(m) == FSub(PCoef(p, m), PCoef(q, m))
    IN  [m \in {x \in DOMAIN p \cup DOMAIN q : c(x) # 0} |-> c(m)]

RECURSIVE MonoMul(_, _)
MonoMul(a, b) ==
    IF a = <<>> THEN b
    ELSE IF b = <<>> THEN a
    ELSE IF Head(a) <= Head(b) THEN <<Head(a)>> \o MonoMul(Tail(a), b)
    ELSE <<Head(b)>> \o MonoMul(a, Tail(b))

RECURSIVE PairSum(_, _, _)
PairSum(p, q, S) ==
    IF S = {} THEN 0
    ELSE LET x == CHOOSE y \in S : TRUE
         IN  FAdd(FMul(p[x[1]], q[x[2]]), PairSum(p, q, S \ {x}))

PMul(p, q) ==
    LET pairs == (DOMAIN p) \X (DOMAIN q)
        c(m) == PairSum(p, q, {x \in pairs : MonoMul(x[1], x[2]) = m})
    IN  [m \in {y \in {MonoMul(x[1], x[2]) : x \in pairs} : c(y) # 0} |-> c(m)]

TotalDegree(p) == IF DOMAIN p = {} THEN 0 ELSE Max({Len(m) : m \in DOMAIN p})

\* ------------------------- ExtensionAlgebra<F::Extension, D> over a scalar
\* The routines are generic in the field F. dom names the scalars the wires
\* hold: "ext" for elements of F::Extension, "poly" for polynomials in the
\* trace variables.
SFromBase(dom, d, c) == IF dom = "poly" THEN PConst(c) ELSE from_basefield(c % P, d)
SAdd(dom, x, y) == IF dom = "poly" THEN PAdd(x, y) ELSE ExtAdd(x, y)
SSub(dom, x, y) == IF dom = "poly" THEN PSub(x, y) ELSE ExtSub(x, y)
SMul(dom, x, y) == IF dom = "poly" THEN PMul(x, y) ELSE ExtMul(x, y)

RECURSIVE SSumFrom(_, _, _, _)
SSumFrom(dom, d, xs, n) ==
    IF n > Len(xs) THEN SFromBase(dom, d, 0)
    ELSE SAdd(dom, xs[n], SSumFrom(dom, d, xs, n + 1))

SSum(dom, d, xs) == CHOOSE r \in {SSumFrom(dom, d, x, 1) : x \in {xs}} : TRUE

AlgAdd(dom, a, b) ==
    CHOOSE r \in {AsTuple([j \in 1..Len(x) |-> SAdd(dom, x[j], y[j])]) : x \in {a}, y \in {b}} : TRUE

AlgSub(dom, a, b) ==
    CHOOSE r \in {AsTuple([j \in 1..Len(x) |-> SSub(dom, x[j], y[j])]) : x \in {a}, y \in {b}} : TRUE

\* ExtensionAlgebra::scalar_mul: every coordinate times the scalar.
AlgScalarMul(dom, a, c) ==
    CHOOSE r \in {AsTuple([j \in 1..Len(x) |-> SMul(dom, x[j], y)]) : x \in {a}, y \in {c}} : TRUE

AlgMul(dom, a, b) ==
    CHOOSE r \in
      {LET d == Len(x)
           w == SFromBase(dom, d, W)
           term(k, i) ==
               LET j == (k - i + d) % d
               IN  IF i + j < d THEN SMul(dom, x[i + 1], y[j + 1])
                   ELSE SMul(dom, w, SMul(dom, x[i + 1], y[j + 1]))
       IN  AsTuple([k \in 1..d |-> SSum(dom, d, AsTuple([i \in 1..d |-> term(k - 1, i - 1)]))])
         : x \in {a}, y \in {b}} : TRUE

to_basefield_array(a) == a

\* ------------------------------------------------------- evaluation vars
\* EvaluationVars::get_local_ext_algebra / EvaluationVarsBase::get_local_ext:
\* the wires of the range, in order.
get_local_ext_algebra(v, r) == AsTuple([j \in 1..RangeLen(r) |-> v.local_wires[r[1] + j - 1]])

get_local_ext(v, r) == AsTuple([j \in 1..RangeLen(r) |-> v.local_wires[r[1] + j - 1]])

\* ------------------------------------------------------- eval_unfiltered
\* Mutant: the two constants are taken in the opposite order.
RECURSIVE eval_unfiltered_consts_swapped(_, _, _, _, _)
eval_unfiltered_consts_swapped(dom, g, d, v, i) ==
    IF i >= g.num_ops THEN <<>>
    ELSE LET const_0 == v.local_constants[1]
             const_1 == v.local_constants[0]
             multiplicand_0 == get_local_ext_algebra(v, wires_ith_multiplicand_0(d, i))
             multiplicand_1 == get_local_ext_algebra(v, wires_ith_multiplicand_1(d, i))
             addend == get_local_ext_algebra(v, wires_ith_addend(d, i))
             output == get_local_ext_algebra(v, wires_ith_output(d, i))
             computed_output ==
                 AlgAdd(dom, AlgScalarMul(dom, AlgMul(dom, multiplicand_0, multiplicand_1), const_0),
                        AlgScalarMul(dom, addend, const_1))
         IN  to_basefield_array(AlgSub(dom, output, computed_output))
             \o eval_unfiltered_consts_swapped(dom, g, d, v, i + 1)

\* The body of `for i in 0..self.num_ops`, from operation i on.
RECURSIVE eval_unfiltered_from(_, _, _, _, _)
eval_unfiltered_from(dom, g, d, v, i) ==
    IF i >= g.num_ops THEN <<>>
    ELSE LET const_0 == v.local_constants[0]
             const_1 == v.local_constants[1]
             multiplicand_0 == get_local_ext_algebra(v, wires_ith_multiplicand_0(d, i))
             multiplicand_1 == get_local_ext_algebra(v, wires_ith_multiplicand_1(d, i))
             addend == get_local_ext_algebra(v, wires_ith_addend(d, i))
             output == get_local_ext_algebra(v, wires_ith_output(d, i))
             computed_output ==
                 AlgAdd(dom, AlgScalarMul(dom, AlgMul(dom, multiplicand_0, multiplicand_1), const_0),
                        AlgScalarMul(dom, addend, const_1))
         IN  to_basefield_array(AlgSub(dom, output, computed_output))
             \o eval_unfiltered_from(dom, g, d, v, i + 1)

eval_unfiltered(dom, g, d, v) == eval_unfiltered_from(dom, g, d, v, 0)

\* ---------------------------------------------- eval_unfiltered_base_one
\* Every value yield_constr.many receives, in order.
RECURSIVE eval_unfiltered_base_one_from(_, _, _, _)
eval_unfiltered_base_one_from(g, d, v, i) ==
    IF i >= g.num_ops THEN <<>>
    ELSE LET const_0 == v.local_constants[0]
             const_1 == v.local_constants[1]
             multiplicand_0 == get_local_ext(v, wires_ith_multiplicand_0(d, i))
             multiplicand_1 == get_local_ext(v, wires_ith_multiplicand_1(d, i))
             addend == get_local_ext(v, wires_ith_addend(d, i))
             output == get_local_ext(v, wires_ith_output(d, i))
             computed_output ==
                 ExtAdd(ExtScalarMul(ExtMul(multiplicand_0, multiplicand_1), const_0),
                        ExtScalarMul(addend, const_1))
         IN  to_basefield_array(ExtSub(output, computed_output))
             \o eval_unfiltered_base_one_from(g, d, v, i + 1)

eval_unfiltered_base_one(g, d, v) == eval_unfiltered_base_one_from(g, d, v, 0)

\* -------------------------------------------------------- circuit builder
\* plonk::circuit_builder::CircuitBuilder: an ExtensionTarget is the node of
\* the circuit that computes it. <<"wire", c>> and <<"const", k>> are the
\* row's wire and constant targets, <<"lit", c>> a constant of the circuit,
\* and <<"arith", c0, c1, x, y, z>> one arithmetic operation c0*x*y + c1*z.
arithmetic_extension(c0, c1, x, y, z) == <<"arith", c0, c1, x, y, z>>

zero_extension == <<"lit", 0>>
one_extension == <<"lit", 1>>

mul_extension(a, b) == arithmetic_extension(1, 0, a, b, zero_extension)

mul_add_extension(a, b, c) == arithmetic_extension(1, 1, a, b, c)

sub_extension(a, b) == arithmetic_extension(1, P - 1, one_extension, a, b)

\* acc <- constant * a * b + acc over the pairs, in order.
RECURSIVE inner_product_extension(_, _, _)
inner_product_extension(constant, starting_acc, pairs) ==
    IF pairs = <<>> THEN starting_acc
    ELSE inner_product_extension(
             constant,
             arithmetic_extension(constant, 1, Head(pairs)[1], Head(pairs)[2], starting_acc),
             Tail(pairs))

\* Coordinate k gathers the pairs (a_i, b_j) with i + j = k, and, times W,
\* those with i + j = k + d.
mul_add_ext_algebra(a, b, c) ==
    CHOOSE r \in
      {LET d == Len(x)
           inner(k) == AsTuple([n \in 1..(k + 1) |-> <<x[n], y[k - n + 2]>>])
           inner_w(k) == AsTuple([n \in 1..(d - 1 - k) |-> <<x[k + n + 1], y[d - n + 1]>>])
       IN  AsTuple([k \in 1..d |->
              inner_product_extension(
                  1, inner_product_extension(W % P, z[k], inner_w(k - 1)), inner(k - 1))])
         : x \in {a}, y \in {b}, z \in {c}} : TRUE

zero_ext_algebra(d) == AsTuple([j \in 1..d |-> zero_extension])

mul_ext_algebra(a, b) == mul_add_ext_algebra(a, b, zero_ext_algebra(Len(a)))

scalar_mul_ext_algebra(a, b) ==
    CHOOSE r \in {AsTuple([j \in 1..Len(y) |-> mul_extension(x, y[j])]) : x \in {a}, y \in {b}} : TRUE

scalar_mul_add_ext_algebra(a, b, c) ==
    CHOOSE r \in {AsTuple([j \in 1..Len(y) |-> mul_add_extension(x, y[j], z[j])])
                     : x \in {a}, y \in {b}, z \in {c}} : TRUE

sub_ext_algebra(a, b) ==
    CHOOSE r \in {AsTuple([j \in 1..Len(x) |-> sub_extension(x[j], y[j])]) : x \in {a}, y \in {b}} : TRUE

to_ext_target_array(a) == a

\* The value a target of the built circuit takes when the row's targets are
\* assigned v.
RECURSIVE eval_target(_, _, _)
eval_target(t, v, d) ==
    CASE t[1] = "wire" -> v.local_wires[t[2]]
      [] t[1] = "const" -> v.local_constants[t[2]]
      [] t[1] = "lit" -> from_basefield(t[2], d)
      [] OTHER ->
           ExtAdd(ExtScalarMul(ExtMul(eval_target(t[4], v, d), eval_target(t[5], v, d)), t[2]),
                  ExtScalarMul(eval_target(t[6], v, d), t[3]))

\* EvaluationTargets of a gate's row.
RowTargets(g, d) ==
    [local_constants |-> [k \in 0..1 |-> <<"const", k>>],
     local_wires |-> [c \in 0..(num_wires(g, d) - 1) |-> <<"wire", c>>]]

\* ------------------------------------------------ eval_unfiltered_circuit
RECURSIVE eval_unfiltered_circuit_from(_, _, _, _)
eval_unfiltered_circuit_from(g, d, v, i) ==
    IF i >= g.num_ops THEN <<>>
    ELSE LET const_0 == v.local_constants[0]
             const_1 == v.local_constants[1]
             multiplicand_0 == get_local_ext_algebra(v, wires_ith_multiplicand_0(d, i))
             multiplicand_1 == get_local_ext_algebra(v, wires_ith_multiplicand_1(d, i))
             addend == get_local_ext_algebra(v, wires_ith_addend(d, i))
             output == get_local_ext_algebra(v, wires_ith_output(d, i))
             mul == mul_ext_algebra(multiplicand_0, multiplicand_1)
             scaled_mul == scalar_mul_ext_algebra(const_0, mul)
             computed_output == scalar_mul_add_ext_algebra(const_1, addend, scaled_mul)
             diff == sub_ext_algebra(output, computed_output)
         IN  to_ext_target_array(diff) \o eval_unfiltered_circuit_from(g, d, v, i + 1)

eval_unfiltered_circuit(g, d, v) == eval_unfiltered_circuit_from(g, d, v, 0)

\* =========================================================================
\* SpecEval: the three evaluation routines on one sampled row
\* =========================================================================
MaxEvalD == 2
MaxEvalWires == 8

\* Sampled values of F::Extension: every base-field element, and as many
\* elements with all coordinates in play.
BaseSample(d) == {from_basefield(a, d) : a \in F}
ExtSample(d) == {AsTuple([j \in 1..d |-> (a + j - 1) % P]) : a \in F}

\* The values one sampled row draws from: SampleSize values of one kind.
SampleSize == 2
Samples(d) ==
    {S \in (SUBSET BaseSample(d)) \cup (SUBSET ExtSample(d)) : Cardinality(S) = SampleSize}

IsBase(x) == \A j \in 2..Len(x) : x[j] = 0

AllBase(v) ==
    /\ \A k \in DOMAIN v.local_constants : IsBase(v.local_constants[k])
    /\ \A c \in DOMAIN v.local_wires : IsBase(v.local_wires[c])

\* EvaluationVarsBase of a row whose values all lie in the base field.
BaseVars(v) ==
    [local_constants |-> [k \in DOMAIN v.local_constants |-> v.local_constants[k][1]],
     local_wires |-> [c \in DOMAIN v.local_wires |-> v.local_wires[c][1]]]

\* gate_testing::test_eval_fns: the routines on the same sampled inputs.
EvalResults(g, d, v) ==
    [ext |-> eval_unfiltered("ext", g, d, v),
     in_base_field |-> AllBase(v),
     base |-> IF AllBase(v) THEN eval_unfiltered_base_one(g, d, BaseVars(v)) ELSE <<>>,
     circuit |-> LET targets == eval_unfiltered_circuit(g, d, RowTargets(g, d))
                 IN  AsTuple([n \in 1..Len(targets) |-> eval_target(targets[n], v, d)])]

InitEval ==
    /\ D \in 1..MaxEvalD
    /\ config \in [num_routed_wires : 0..MaxEvalWires]
    /\ gate = new_from_config(D, config)
    /\ vars_row = NotYet
    /\ evals = NotYet
    /\ probe = NotYet
    /\ IdleGate
    /\ IdleCodec
    /\ IdleExport
    /\ IdleResolver

EvalFns ==
    /\ evals = NotYet
    /\ \E S \in Samples(D) :
       \E wires \in [0..(num_wires(gate, D) - 1) -> S] :
       \E constants \in [0..1 -> S] :
         LET v == [local_constants |-> constants, local_wires |-> wires]
         IN  /\ vars_row' = v
             /\ evals' = EvalResults(gate, D, v)
    /\ UNCHANGED <<gvars, cvars, xvars, probe, rvars>>

NextEval == EvalFns

SpecEval == InitEval /\ [][NextEval]_vars

\* The constraint the claim names, for operation i: the D coordinates of
\* output_i - (multiplicand_0_i * multiplicand_1_i * const_0 + addend_i * const_1).
Slot(v, d, i, k) == AsTuple([j \in 1..d |-> v.local_wires[4 * d * i + k * d + j - 1]])

NamedConstraint(v, d, i) ==
    AlgSub("ext", Slot(v, d, i, 3),
           AlgAdd("ext",
                  AlgScalarMul("ext", AlgMul("ext", Slot(v, d, i, 0), Slot(v, d, i, 1)),
                               v.local_constants[0]),
                  AlgScalarMul("ext", Slot(v, d, i, 2), v.local_constants[1])))

\* C2: on the same inputs the three routines return the same num_ops * D
\* values: entry i*D + j is coordinate j of the named constraint of operation
\* i; the circuit's values are eval_unfiltered's, and on base-field inputs the
\* base routine's values, embedded in the extension, are eval_unfiltered's.
C2_ThreeDomainConsistency ==
    evals # NotYet =>
      /\ Len(evals.ext) = gate.num_ops * D
      /\ \A i \in Ops(gate) : \A j \in 1..D :
           evals.ext[i * D + j] = NamedConstraint(vars_row, D, i)[j]
      /\ evals.circuit = evals.ext
      /\ evals.in_base_field =>
           /\ Len(evals.base) = Len(evals.ext)
           /\ \A n \in 1..Len(evals.ext) : from_basefield(evals.base[n], D) = evals.ext[n]

C2_Witness ==
    /\ evals # NotYet
    /\ D = 2
    /\ gate.num_ops >= 1
    /\ ~evals.in_base_field
    /\ evals.circuit = evals.ext
    /\ \E n \in 1..Len(evals.ext) : evals.ext[n][1] # 0 /\ evals.ext[n][2] # 0
    /\ vars_row.local_constants[0] # vars_row.local_constants[1]

\* =========================================================================
\* SpecDegree: eval_unfiltered on symbolic inputs, one constraint at a time
\* =========================================================================
\* Every wire and both constants as distinct variables.
SymbolicVars(g, d) ==
    [local_constants |-> [k \in 0..1 |-> PVar(-(k + 1))],
     local_wires |-> [c \in 0..(num_wires(g, d) - 1) |-> PVar(c)]]

InitDegree ==
    /\ D \in 1..MaxD
    /\ config \in [num_routed_wires : 0..MaxRoutedWires]
    /\ gate = new_from_config(D, config)
    /\ vars_row = NotYet
    /\ evals = NotYet
    /\ probe = NotYet
    /\ IdleGate
    /\ IdleCodec
    /\ IdleExport
    /\ IdleResolver

ProbeDegree ==
    /\ probe = NotYet
    /\ LET constraints == eval_unfiltered("poly", gate, D, SymbolicVars(gate, D))
       IN  \E n \in 1..Len(constraints) :
             probe' = [constraint |-> n,
                       monomials |-> DOMAIN constraints[n],
                       total_degree |-> TotalDegree(constraints[n])]
    /\ UNCHANGED <<gvars, cvars, xvars, vars_row, evals, rvars>>

NextDegree == ProbeDegree

SpecDegree == InitDegree /\ [][NextDegree]_vars

\* C6: degree() is at least the total degree, in the wires and local
\* constants together, of every constraint polynomial of eval_unfiltered;
\* no monomial has more than three variables.
C6_DegreeBound ==
    probe # NotYet =>
      /\ probe.total_degree <= degree(gate)
      /\ \A m \in probe.monomials : Len(m) <= 3

C6_Witness ==
    /\ probe # NotYet
    /\ probe.total_degree = 3
    /\ D >= 2
    /\ \E m \in probe.monomials : Len(m) = 3 /\ m[1] = -1

\* =========================================================================
\* SpecResolver: the generators of one gate row under the dependency resolver
\* =========================================================================
\* ExtensionTarget::from_range: the targets of the range at the row, in order.
from_range(row, r) == AsTuple([j \in 1..RangeLen(r) |-> <<row, r[1] + j - 1>>])

\* PartitionWitness::get_extension_target: the element whose coordinates the
\* targets hold.
get_extension_target(witness, et) == AsTuple([j \in 1..Len(et) |-> witness[et[j]]])

\* GeneratedValues::set_extension_target: each target with its coordinate.
set_extension_target(et, value) ==
    [t \in {et[j] : j \in 1..Len(et)} |-> value[CHOOSE j \in 1..Len(et) : et[j] = t]]

\* Mutant: the product is not scaled by const_0.
run_once_unscaled_product(gen, d, witness) ==
    LET extract_extension(range) == get_extension_target(witness, from_range(gen.row, range))
        multiplicand_0 == extract_extension(wires_ith_multiplicand_0(d, gen.i))
        multiplicand_1 == extract_extension(wires_ith_multiplicand_1(d, gen.i))
        addend == extract_extension(wires_ith_addend(d, gen.i))
        output_target == from_range(gen.row, wires_ith_output(d, gen.i))
        computed_output ==
            ExtAdd(ExtMul(multiplicand_0, multiplicand_1), ExtScalarMul(addend, gen.const_1))
    IN  set_extension_target(output_target, computed_output)

\* The out_buffer run_once leaves: written target -> value.
run_once(gen, d, witness) ==
    LET extract_extension(range) == get_extension_target(witness, from_range(gen.row, range))
        multiplicand_0 == extract_extension(wires_ith_multiplicand_0(d, gen.i))
        multiplicand_1 == extract_extension(wires_ith_multiplicand_1(d, gen.i))
        addend == extract_extension(wires_ith_addend(d, gen.i))
        output_target == from_range(gen.row, wires_ith_output(d, gen.i))
        computed_output ==
            ExtAdd(ExtScalarMul(ExtMul(multiplicand_0, multiplicand_1), gen.const_0),
                   ExtScalarMul(addend, gen.const_1))
    IN  set_extension_target(output_target, computed_output)

\* The witness with the writes of an out_buffer committed.
Commit(witness, out_buffer) ==
    [t \in DOMAIN witness \cup DOMAIN out_buffer |->
        IF t \in DOMAIN out_buffer THEN out_buffer[t] ELSE witness[t]]

\* A counter per key, one more for each of the keys.
Counted(count, keys) ==
    [x \in DOMAIN count \cup keys |->
        (IF x \in DOMAIN count THEN count[x] ELSE 0) + (IF x \in keys THEN 1 ELSE 0)]

\* The multiplicand_0, multiplicand_1 and addend targets of every operation.
InputTargets(g, d, row) ==
    {<<row, c>> : c \in UNION {RangeSet(wires_ith_multiplicand_0(d, i))
                                 \cup RangeSet(wires_ith_multiplicand_1(d, i))
                                 \cup RangeSet(wires_ith_addend(d, i)) : i \in Ops(g)}}

OutputTargets(g, d, row) ==
    {<<row, c>> : c \in UNION {RangeSet(wires_ith_output(d, i)) : i \in Ops(g)}}

\* The witnesses the resolver is started from: every full assignment of the
\* inputs, and every partial one of a fixed row of values.
PartialWitnesses(inputs) == {[t \in A |-> (t[1] + t[2]) % P] : A \in SUBSET inputs}

InitialWitnesses(inputs) == [inputs -> F] \cup PartialWitnesses(inputs)

Ready(g) == dependencies(g, D) \subseteq DOMAIN partition_witness

InitResolver ==
    /\ D \in 1..MaxEvalD
    /\ config \in [num_routed_wires : 0..MaxEvalWires]
    /\ gate = new_from_config(D, config)
    /\ gate_row \in 0..MaxRow
    /\ row_constants \in [0..1 -> F]
    /\ pending = generators(gate, gate_row, row_constants)
    /\ partition_witness \in InitialWitnesses(InputTargets(gate, D, gate_row))
    /\ initial_witness = partition_witness
    /\ status = "running"
    /\ write_count = <<>>
    /\ run_count = <<>>
    /\ IdleGate
    /\ IdleCodec
    /\ IdleExport
    /\ IdleEval

\* Select any pending generator whose dependencies are all assigned, run it,
\* commit its out_buffer and remove it from the pending set. run_once
\* panics on a target the witness does not hold.
RunGenerator ==
    /\ status = "running"
    /\ \E g \in pending :
         /\ Ready(g)
         /\ IF run_once_reads(g, D) \subseteq DOMAIN partition_witness
            THEN LET out_buffer == run_once(g, D, partition_witness)
                 IN  /\ partition_witness' = Commit(partition_witness, out_buffer)
                     /\ write_count' = Counted(write_count, DOMAIN out_buffer)
                     /\ run_count' = Counted(run_count, {g})
                     /\ pending' = pending \ {g}
                     /\ UNCHANGED status
            ELSE /\ status' = "read_unassigned"
                 /\ UNCHANGED <<pending, partition_witness, write_count, run_count>>
    /\ UNCHANGED <<gvars, cvars, xvars, evars, gate_row, row_constants, initial_witness>>

\* The pending set is empty.
Succeed ==
    /\ status = "running"
    /\ pending = {}
    /\ status' = "done"
    /\ UNCHANGED <<gvars, cvars, xvars, evars, gate_row, row_constants, pending,
                   partition_witness, initial_witness, write_count, run_count>>

\* A round with zero progress: generators are pending and none is ready.
FailUnsatisfiable ==
    /\ status = "running"
    /\ pending # {}
    /\ \A g \in pending : ~Ready(g)
    /\ status' = "unsatisfiable"
    /\ UNCHANGED <<gvars, cvars, xvars, evars, gate_row, row_constants, pending,
                   partition_witness, initial_witness, write_count, run_count>>

NextResolver == RunGenerator \/ Succeed \/ FailUnsatisfiable

SpecResolver == InitResolver /\ [][NextResolver]_vars

\* The schedules: the resolver started from the partial witnesses of the
\* first and the last row. Its loop keeps going while it has a step to take.
InitSchedule ==
    /\ InitResolver
    /\ gate_row \in {0, MaxRow}
    /\ partition_witness \in PartialWitnesses(InputTargets(gate, D, gate_row))

FairSpecResolver == InitSchedule /\ [][NextResolver]_vars /\ WF_vars(NextResolver)

Gens == generators(gate, gate_row, row_constants)

Ended == status \in {"done", "unsatisfiable"}

\* The row the witness holds, as EvaluationVarsBase.
WitnessRow ==
    [local_constants |-> row_constants,
     local_wires |-> [c \in 0..(num_wires(gate, D) - 1) |-> partition_witness[<<gate_row, c>>]]]

Operand(i, k) == get_extension_target(partition_witness, from_range(gate_row, Role(k, D, i)))

\* C1: once every generator of generators(row, local_constants) has run
\* once and its out_buffer is committed, the inputs hold what they were
\* given, the output wires of each operation hold
\* multiplicand_0 * multiplicand_1 * const_0 + addend * const_1 in the
\* extension field, and eval_unfiltered_base_one on the row yields
\* num_ops * D zeros.
C1_WitnessCorrectness ==
    (status \in {"running", "done"} /\ pending = {}) =>
      /\ \A g \in Gens : g \in DOMAIN run_count /\ run_count[g] = 1
      /\ \A t \in DOMAIN initial_witness : partition_witness[t] = initial_witness[t]
      /\ \A i \in Ops(gate) :
           Operand(i, 3) =
             ExtAdd(ExtMul(ExtMul(Operand(i, 0), Operand(i, 1)),
                           from_basefield(row_constants[0], D)),
                    ExtMul(Operand(i, 2), from_basefield(row_constants[1], D)))
      /\ eval_unfiltered_base_one(gate, D, WitnessRow)
           = AsTuple([n \in 1..(gate.num_ops * D) |-> 0])

C1_Witness ==
    /\ status = "done"
    /\ D = 2
    /\ gate.num_ops = 1
    /\ gate_row = MaxRow
    /\ row_constants[0] = 2
    /\ row_constants[1] = 1
    /\ Operand(0, 0)[2] # 0
    /\ Operand(0, 1)[2] # 0
    /\ Operand(0, 3)[1] # 0
    /\ Operand(0, 3)[2] # 0
    /\ Operand(0, 3) # Operand(0, 2)

WriteCount(t) == IF t \in DOMAIN write_count THEN write_count[t] ELSE 0

\* C9: of the generators of one gate instance each declares dependencies
\* disjoint from the targets it writes, and two of them write disjoint
\* targets; under any interleaving a generator runs only with all its
\* dependencies assigned and reads nothing else, no target is written twice
\* or over a given input, an assigned target keeps its value, and at
\* success every output target was written exactly once.
C9_SingleAssignment ==
    /\ [](status # "idle" =>
            /\ \A g \in Gens :
                 /\ dependencies(g, D) = InputTargets([num_ops |-> g.i + 1], D, gate_row)
                                           \ InputTargets([num_ops |-> g.i], D, gate_row)
                 /\ run_once_writes(g, D) = OutputTargets([num_ops |-> g.i + 1], D, gate_row)
                                              \ OutputTargets([num_ops |-> g.i], D, gate_row)
                 /\ dependencies(g, D) \cap run_once_writes(g, D) = {}
                 /\ run_once_reads(g, D) \subseteq dependencies(g, D)
            /\ \A g \in Gens : \A h \in Gens \ {g} :
                 run_once_writes(g, D) \cap run_once_writes(h, D) = {}
            /\ status # "read_unassigned"
            /\ \A t \in DOMAIN write_count :
                 write_count[t] = 1 /\ t \notin DOMAIN initial_witness
            /\ status = "done" =>
                 \A t \in OutputTargets(gate, D, gate_row) : WriteCount(t) = 1)
    /\ [][/\ \A g \in pending \ pending' : dependencies(g, D) \subseteq DOMAIN partition_witness
          /\ \A t \in DOMAIN partition_witness :
               t \in DOMAIN partition_witness' /\ partition_witness'[t] = partition_witness[t]]_vars

C9_Witness ==
    /\ status = "done"
    /\ gate.num_ops = 2
    /\ Cardinality(DOMAIN write_count) = 2 * D
    /\ \E g \in Gens : g.i = 1 /\ run_count[g] = 1

\* The witness the generators leave when they are tried once each in the
\* order of their operation index.
RECURSIVE ResolveInOrder(_, _)
ResolveInOrder(witness, i) ==
    IF i >= gate.num_ops THEN witness
    ELSE LET g == CHOOSE x \in Gens : x.i = i
         IN  IF dependencies(g, D) \subseteq DOMAIN witness
             THEN ResolveInOrder(Commit(witness, run_once(g, D, witness)), i + 1)
             ELSE ResolveInOrder(witness, i + 1)

AllInputsAssigned == InputTargets(gate, D, gate_row) \subseteq DOMAIN initial_witness

\* C10: the resolver over the generators of one gate row always ends, in
\* success or in the unsatisfiable-witness failure. With every input wire
\* assigned at the start it ends in success: the pending set empty, every
\* generator run exactly once, all num_ops * D output wires assigned.
\* Otherwise it ends in the failure, reached when generators are pending
\* and none is ready, with exactly the generators that have an unassigned
\* dependency pending. The final witness is the same whatever the order in
\* which ready generators were picked.
C10_ResolverTermination ==
    /\ <>Ended
    /\ [](status \in {"running", "done", "unsatisfiable"})
    /\ [](status = "done" =>
            /\ AllInputsAssigned
            /\ pending = {}
            /\ \A g \in Gens : g \in DOMAIN run_count /\ run_count[g] = 1
            /\ OutputTargets(gate, D, gate_row) \subseteq DOMAIN partition_witness
            /\ Cardinality(OutputTargets(gate, D, gate_row)) = gate.num_ops * D)
    /\ [](status = "unsatisfiable" =>
            /\ ~AllInputsAssigned
            /\ pending # {}
            /\ pending = {g \in Gens : ~(dependencies(g, D) \subseteq DOMAIN partition_witness)}
            /\ \A g \in Gens \ pending : g \in DOMAIN run_count /\ run_count[g] = 1)
    /\ [](Ended => partition_witness = ResolveInOrder(initial_witness, 0))
    /\ [][~Ended]_vars

C10_Witness ==
    /\ status = "unsatisfiable"
    /\ gate.num_ops = 2
    /\ Cardinality(pending) = 1
    /\ Cardinality(DOMAIN run_count) = 1
    /\ partition_witness # initial_witness

=============================================================================
